---------------------------- MODULE Spec2Model ----------------------------
(***************************************************************************)
(* Model of calculate-simhash/main.py: the capture compressor              *)
(* (compress_captures), the fingerprint computation (calculate_simhash on  *)
(* top of the simhash library's Simhash class), its byte / base64          *)
(* serialization and the batch driver (process_html_file,                  *)
(* benchmark_html_processing).                                             *)
(*                                                                         *)
(* Representation choices:                                                 *)
(*  - a Python str is a sequence of one-character strings;                 *)
(*  - a Python dict is a TLA+ function whose DOMAIN is the key set;        *)
(*  - a non-negative Python int that may exceed 32 bits (a hash value, a   *)
(*    fingerprint) is the set of its set bit positions (bit 0 = least      *)
(*    significant), which represents it exactly;                           *)
(*  - None is the empty tuple, str(e) of an exception is <<message>>;      *)
(*  - wall-clock timings are left out (they influence no other field).     *)
(***************************************************************************)
EXTENDS Integers, Sequences, FiniteSets

VARIABLES
    \* compress_captures
    captures,      \* the argument: sequence of <<ts, simhash>>
    ci,            \* number of captures the for loop has consumed
    hash_dict,     \* dict simhash -> id
    grouped,       \* dict year -> dict month -> dict day -> list of <<hms, id>>
    archive,       \* the returned dict, NoArchive until returned
    cerror,        \* the exception that left the call, None if none
    assigned,      \* the hash_id of each iteration so far, in input order
    cpc,           \* "idle" | "loop" | "done" | "raised"
    \* calculate_simhash as a pure function
    sfeatures,     \* the features dict: its items <<token, weight>> in iteration order
    swidth,        \* simhash_size
    svalue,        \* the returned fingerprint
    spc,           \* "idle" | "ready" | "done"
    \* hashlib.blake2b(x).digest() read as a big-endian integer, for each token
    blake2b,
    \* benchmark_html_processing
    listing,       \* what os.listdir(folder_path) does: [raises, names]
    contents,      \* name -> what reading and parsing that file gives
    simhash_size,
    max_files,
    files,         \* the selected files
    fi,            \* number of files the for loop has consumed
    results,       \* dict file_name -> result
    processed_files,
    summary,
    bpc            \* "idle" | "start" | "loop" | "done"

cvars == <<captures, ci, hash_dict, grouped, archive, cerror, assigned, cpc>>
svars == <<sfeatures, swidth, svalue, spc, blake2b>>
bvars == <<listing, contents, simhash_size, max_files, files, fi, results,
           processed_files, summary, bpc>>
vars == <<cvars, svars, bvars>>

None == <<>>
EmptyDict == <<>>

-----------------------------------------------------------------------------
(* Bounds of the model *)

MaxCaptures == 3
MaxWeight == 2
MaxListing == 2

-----------------------------------------------------------------------------
(* Python helpers *)

Min(a, b) == IF a < b THEN a ELSE b

\* s[a:b] with 0 <= a, 0 <= b (Python clamps both ends to len(s))
Slice(s, a, b) ==
    LET lo == Min(a, Len(s))
        hi == Min(b, Len(s))
    IN  IF lo >= hi THEN <<>> ELSE [k \in 1..(hi - lo) |-> s[lo + k]]

\* s[a:]
SliceFrom(s, a) == Slice(s, a, Len(s))

DigitChars == <<"0", "1", "2", "3", "4", "5", "6", "7", "8", "9">>

IsDigit(c) == \E d \in 1..10 : DigitChars[d] = c

DigitValue(c) == (CHOOSE d \in 1..10 : DigitChars[d] = c) - 1

\* int(s) raises ValueError unless s is a non-empty run of digits (the model's
\* alphabet is the digits and the letter "x": no sign, blank or underscore)
IntRaises(s) == Len(s) = 0 \/ \E k \in 1..Len(s) : ~IsDigit(s[k])

RECURSIVE IntValue(_)
IntValue(s) ==
    IF Len(s) = 0 THEN 0
    ELSE 10 * IntValue(SubSeq(s, 1, Len(s) - 1)) + DigitValue(s[Len(s)])

\* dict.get(k, default)
DictGet(d, k, default) == IF k \in DOMAIN d THEN d[k] ELSE default

\* d[k] = v
DictSet(d, k, v) == [x \in (DOMAIN d) \cup {k} |-> IF x = k THEN v ELSE d[x]]

\* sorted(keys, reverse=True)
RECURSIVE SortedDescending(_)
SortedDescending(S) ==
    IF S = {} THEN <<>>
    ELSE LET m == CHOOSE x \in S : \A y \in S : x >= y
         IN  <<m>> \o SortedDescending(S \ {m})

\* sorted(keys) for a set of integers
RECURSIVE Sorted(_)
Sorted(S) ==
    IF S = {} THEN <<>>
    ELSE LET m == CHOOSE x \in S : \A y \in S : x <= y
         IN  <<m>> \o Sorted(S \ {m})

-----------------------------------------------------------------------------
(* compress_captures (main.py 122-154) *)

NoArchive == [returned |-> FALSE]

Year(ts) == Slice(ts, 0, 4)
Month(ts) == Slice(ts, 4, 6)
Day(ts) == Slice(ts, 6, 8)
Hms(ts) == SliceFrom(ts, 8)

\* lines 128-130: the three int() calls, in order; the first that raises ends the call
ParseRaises(ts) == IntRaises(Year(ts)) \/ IntRaises(Month(ts)) \/ IntRaises(Day(ts))

BadLiteral(ts) ==
    IF IntRaises(Year(ts)) THEN Year(ts)
    ELSE IF IntRaises(Month(ts)) THEN Month(ts)
    ELSE Day(ts)

\* every capture takes a fresh id: the lookup of line 132 left out
HashIdNoReuse(hd, simhash) == Cardinality(DOMAIN hd)

\* lines 132-134
HashId(hd, simhash) == DictGet(hd, simhash, Cardinality(DOMAIN hd))

\* lines 133-134 left out: the fingerprint is never recorded
HashDictNoAdd(hd, simhash) == hd

HashDictAdd(hd, simhash) ==
    IF simhash \notin DOMAIN hd THEN DictSet(hd, simhash, HashId(hd, simhash)) ELSE hd

\* insert(0, ...) in place of append(...)
GroupedPrepend(g, year, month, day, pair) ==
    LET gy == DictGet(g, year, EmptyDict)
        gm == DictGet(gy, month, EmptyDict)
        gd == DictGet(gm, day, <<>>)
    IN  DictSet(g, year, DictSet(gy, month, DictSet(gm, day, <<pair>> \o gd)))

\* line 135: grouped[year][month][day].append([hms, hash_id]) on nested defaultdicts
GroupedAppend(g, year, month, day, pair) ==
    LET gy == DictGet(g, year, EmptyDict)
        gm == DictGet(gy, month, EmptyDict)
        gd == DictGet(gm, day, <<>>)
    IN  DictSet(g, year, DictSet(gy, month, DictSet(gm, day, Append(gd, pair))))

\* lines 127-135: one iteration of the for loop
CompressLoop ==
    /\ cpc = "loop"
    /\ ci < Len(captures)
    /\ LET ts == captures[ci + 1][1]
           simhash == captures[ci + 1][2]
       IN  IF ParseRaises(ts)
           THEN /\ cpc' = "raised"
                /\ cerror' = [type |-> "ValueError", literal |-> BadLiteral(ts)]
                /\ UNCHANGED <<ci, hash_dict, grouped, assigned>>
           ELSE /\ hash_dict' = HashDictAdd(hash_dict, simhash)
                /\ grouped' = GroupedAppend(grouped, IntValue(Year(ts)),
                                  IntValue(Month(ts)), IntValue(Day(ts)),
                                  <<Hms(ts), HashId(hash_dict, simhash)>>)
                /\ assigned' = Append(assigned, HashId(hash_dict, simhash))
                /\ ci' = ci + 1
                /\ UNCHANGED <<cpc, cerror>>
    /\ UNCHANGED <<captures, archive>>
    /\ UNCHANGED <<svars, bvars>>

\* lines 142-144
DayEntries(gm) ==
    LET days == Sorted(DOMAIN gm)
    IN  [k \in 1..Len(days) |-> <<days[k]>> \o gm[days[k]]]

\* lines 140-145
MonthEntries(gy) ==
    LET months == Sorted(DOMAIN gy)
    IN  [k \in 1..Len(months) |-> <<months[k]>> \o DayEntries(gy[months[k]])]

\* lines 137-146
NewCaptures(g) ==
    LET years == Sorted(DOMAIN g)
    IN  [k \in 1..Len(years) |-> <<years[k]>> \o MonthEntries(g[years[k]])]

\* lines 148-149: sorted(hash_dict.items(), key=lambda x: x[1]), then the keys
RECURSIVE SortedByValue(_, _)
SortedByValue(hd, keys) ==
    IF keys = {} THEN <<>>
    ELSE LET m == CHOOSE x \in keys : \A y \in keys : hd[x] <= hd[y]
         IN  <<m>> \o SortedByValue(hd, keys \ {m})

Hashes(hd) == SortedByValue(hd, DOMAIN hd)

\* lines 137-154: the code after the loop
CompressEmit ==
    /\ cpc = "loop"
    /\ ci = Len(captures)
    /\ archive' = [returned |-> TRUE, captures |-> NewCaptures(grouped),
                   hashes |-> Hashes(hash_dict)]
    /\ cpc' = "done"
    /\ UNCHANGED <<captures, ci, hash_dict, grouped, cerror, assigned>>
    /\ UNCHANGED <<svars, bvars>>

-----------------------------------------------------------------------------
(* Inputs of compress_captures *)

TsA == <<"2","0","2","3", "0","1", "0","1", "0","0","0","0","0","0">>
TsB == <<"2","0","2","3", "0","1", "0","1", "0","0","0","0","0","1">>
TsC == <<"2","0","2","2", "1","2", "3","1", "2","3","5","9","5","9">>
\* a year with a leading zero, another day of January
TsD == <<"0","9","9","9", "0","1", "0","2", "0","0","0","0","0","0">>
\* fourteen digits, month 13
TsMonth13 == <<"2","0","2","3", "1","3", "0","1", "0","0","0","0","0","0">>
\* ten characters
TsShort == <<"2","0","2","3", "0","1", "0","1", "0","0">>
\* a letter in the time of day
TsBadSuffix == <<"2","0","2","3", "0","1", "0","1", "0","0","0","0","x","x">>
\* a letter in the year
TsBadYear == <<"2","0","x","3", "0","1", "0","1", "0","0","0","0","0","0">>

OtherTimestamps == {TsShort, TsBadSuffix, TsBadYear}
Fingerprints == {"AAA", "BBB", "CCC"}

CapturePool ==
    ({TsA, TsB} \X Fingerprints)
        \cup ({TsC, TsMonth13} \X {"AAA", "BBB"})
        \cup (({TsD} \cup OtherTimestamps) \X {"AAA"})

Range(s) == {s[k] : k \in 1..Len(s)}

SeqsUpTo(S, n) == UNION {[1..k -> S] : k \in 0..n}

IdleCompress ==
    /\ captures = <<>> /\ ci = 0 /\ hash_dict = EmptyDict /\ grouped = EmptyDict
    /\ archive = NoArchive /\ cerror = None /\ assigned = <<>> /\ cpc = "idle"

IdleSimhash ==
    /\ sfeatures = <<>> /\ swidth = 0 /\ svalue = {} /\ spc = "idle"
    /\ blake2b = EmptyDict

IdleBench ==
    /\ listing = [raises |-> FALSE, names |-> <<>>] /\ contents = EmptyDict /\ simhash_size = 0 /\ max_files = 0
    /\ files = <<>> /\ fi = 0 /\ results = EmptyDict /\ processed_files = 0
    /\ summary = EmptyDict /\ bpc = "idle"

\* lines 124-125: the state on entry to the loop
InitCompress ==
    /\ captures \in SeqsUpTo(CapturePool, MaxCaptures)
    /\ ci = 0
    /\ hash_dict = EmptyDict
    /\ grouped = EmptyDict
    /\ archive = NoArchive
    /\ cerror = None
    /\ assigned = <<>>
    /\ cpc = "loop"
    /\ IdleSimhash
    /\ IdleBench

NextCompress == CompressLoop \/ CompressEmit

SpecCompress == InitCompress /\ [][NextCompress]_vars

-----------------------------------------------------------------------------
(* The simhash library's Simhash(features, f, hashfunc).value                *)
(* (Simhash.build_by_features), which calculate_simhash delegates to        *)

\* v[i] = w if h & masks[i] else -w: the sum of the earlier features is dropped
AccumulateOverwrite(v, h, w) == [i \in DOMAIN v |-> IF i \in h THEN w ELSE -w]

\* for i in range(f): v[i] += w if h & masks[i] else -w
Accumulate(v, h, w) == [i \in DOMAIN v |-> v[i] + (IF i \in h THEN w ELSE -w)]

\* the loop over the features, in iteration order, from v = [0] * f
RECURSIVE SumVector(_, _, _)
SumVector(items, f, hashfunc) ==
    IF Len(items) = 0 THEN [i \in 0..(f - 1) |-> 0]
    ELSE LET last == items[Len(items)]
         IN  Accumulate(SumVector(SubSeq(items, 1, Len(items) - 1), f, hashfunc),
                        hashfunc[last[1]], last[2])

\* ''.join(['0' if i <= 0 else '1' for i in v[::-1]])
BinaryStr(v, f) == [p \in 1..f |-> IF v[f - p] <= 0 THEN "0" ELSE "1"]

\* int(binary_str, 2)
IntBase2(str) == {Len(str) - p : p \in {q \in 1..Len(str) : str[q] = "1"}}

SimhashValue(items, f, hashfunc) == IntBase2(BinaryStr(SumVector(items, f, hashfunc), f))

-----------------------------------------------------------------------------
(* custom_hash_function, calculate_simhash (main.py 12-36) *)

\* lines 12-14, as the function value handed to Simhash
custom_hash_function == [x \in DOMAIN blake2b |-> blake2b[x]]

\* Simhash(features, hashfunc=custom_hash_function): the width argument forgotten,
\* the library's default f = 64 applies
calculate_simhash_default_width(features, size) ==
    SimhashValue(features, 64, custom_hash_function)

\* lines 34-36
calculate_simhash(features, size) == SimhashValue(features, size, custom_hash_function)

\* the function applied to the drawn input
Compute ==
    /\ spc = "ready"
    /\ svalue' = calculate_simhash(sfeatures, swidth)
    /\ spc' = "done"
    /\ UNCHANGED <<sfeatures, swidth, blake2b>>
    /\ UNCHANGED <<cvars, bvars>>

-----------------------------------------------------------------------------
(* Serialization (main.py 74-75) *)

\* int.to_bytes(n, byteorder='little') raises OverflowError when the value needs more bytes
ToBytesOverflows(value, n) == \E b \in value : b >= 8 * n

ToBytesLittle(value, n) ==
    LET Bit(b) == IF b \in value THEN 1 ELSE 0
    IN  [k \in 1..n |->
            Bit(8 * (k - 1)) + 2 * Bit(8 * (k - 1) + 1) + 4 * Bit(8 * (k - 1) + 2)
              + 8 * Bit(8 * (k - 1) + 3) + 16 * Bit(8 * (k - 1) + 4)
              + 32 * Bit(8 * (k - 1) + 5) + 64 * Bit(8 * (k - 1) + 6)
              + 128 * Bit(8 * (k - 1) + 7)]

B64Alphabet ==
    <<"A","B","C","D","E","F","G","H","I","J","K","L","M","N","O","P",
      "Q","R","S","T","U","V","W","X","Y","Z","a","b","c","d","e","f",
      "g","h","i","j","k","l","m","n","o","p","q","r","s","t","u","v",
      "w","x","y","z","0","1","2","3","4","5","6","7","8","9","+","/">>

\* the four characters of one group of 1, 2 or 3 bytes
B64Group(bs) ==
    LET b1 == bs[1]
        b2 == IF Len(bs) >= 2 THEN bs[2] ELSE 0
        b3 == IF Len(bs) >= 3 THEN bs[3] ELSE 0
        n == b1 * 65536 + b2 * 256 + b3
        c1 == B64Alphabet[(n \div 262144) + 1]
        c2 == B64Alphabet[((n \div 4096) % 64) + 1]
        c3 == IF Len(bs) >= 2 THEN B64Alphabet[((n \div 64) % 64) + 1] ELSE "="
        c4 == IF Len(bs) >= 3 THEN B64Alphabet[(n % 64) + 1] ELSE "="
    IN  <<c1, c2, c3, c4>>

\* base64.b64encode(bs).decode('utf-8')
RECURSIVE B64Encode(_)
B64Encode(bs) ==
    IF Len(bs) = 0 THEN <<>>
    ELSE IF Len(bs) <= 3 THEN B64Group(bs)
    ELSE B64Group(SubSeq(bs, 1, 3)) \o B64Encode(SubSeq(bs, 4, Len(bs)))

-----------------------------------------------------------------------------
(* process_html_file (main.py 38-87) *)

EmptyStr == <<>>

\* lines 63-65 left out: an empty mapping goes on to calculate_simhash
process_html_file_unguarded(file, size) ==
    IF file.fault = "read"
    THEN [feature_count |-> 0, simhash |-> EmptyStr, error |-> <<"read failed">>]
    ELSE IF file.fault = "extract"
    THEN [feature_count |-> 0, simhash |-> EmptyStr, error |-> <<"extraction failed">>]
    ELSE LET features == file.features
             simhash_value == calculate_simhash(features, size)
         IN  IF ToBytesOverflows(simhash_value, 8)
             THEN [feature_count |-> Len(features), simhash |-> EmptyStr,
                   error |-> <<"int too big to convert">>]
             ELSE [feature_count |-> Len(features),
                   simhash |-> B64Encode(ToBytesLittle(simhash_value, 8)),
                   error |-> None]

\* the result dict without its timing fields.  file.fault says which call raises:
\* "read" the open/read of lines 53-54, "extract" extract_html_features (line 59);
\* every exception ends in the handler of lines 85-86
process_html_file(file, size) ==
    IF file.fault = "read"
    THEN [feature_count |-> 0, simhash |-> EmptyStr, error |-> <<"read failed">>]
    ELSE IF file.fault = "extract"
    THEN [feature_count |-> 0, simhash |-> EmptyStr, error |-> <<"extraction failed">>]
    ELSE LET features == file.features
         IN  IF Len(features) = 0
             THEN [feature_count |-> 0, simhash |-> EmptyStr,
                   error |-> <<"No features extracted">>]
             ELSE LET simhash_value == calculate_simhash(features, size)
                  IN  IF ToBytesOverflows(simhash_value, 8)
                      THEN [feature_count |-> Len(features), simhash |-> EmptyStr,
                            error |-> <<"int too big to convert">>]
                      ELSE [feature_count |-> Len(features),
                            simhash |-> B64Encode(ToBytesLittle(simhash_value, 8)),
                            error |-> None]

-----------------------------------------------------------------------------
(* benchmark_html_processing (main.py 89-120) *)

ErrorKey == <<"e","r","r","o","r">>

DotHtml == <<".","h","t","m","l">>

\* f.endswith('.html')
EndsWithHtml(f) == Len(f) >= 5 /\ SliceFrom(f, Len(f) - 5) = DotHtml

\* line 100: [f for f in os.listdir(folder_path) if f.endswith('.html')][:max_files]
SelectFiles(names, n) == Slice(SelectSeq(names, EndsWithHtml), 0, n)

\* lines 97-106
BenchList ==
    /\ bpc = "start"
    /\ IF listing.raises
       THEN /\ results' = DictSet(EmptyDict, ErrorKey,
                                  [error |-> <<"Failed to list directory">>])
            /\ bpc' = "done"
            /\ UNCHANGED files
       ELSE /\ files' = SelectFiles(listing.names, max_files)
            /\ bpc' = "loop"
            /\ UNCHANGED results
    /\ UNCHANGED <<listing, contents, simhash_size, max_files, fi, processed_files, summary>>
    /\ UNCHANGED <<cvars, svars>>

\* a break on the first failing file
BenchFileBreak ==
    /\ bpc = "loop"
    /\ fi < Len(files)
    /\ LET file_name == files[fi + 1]
           file_result == process_html_file(contents[file_name], simhash_size)
       IN  /\ results' = DictSet(results, file_name, file_result)
           /\ processed_files' =
                  IF file_result.error = None THEN processed_files + 1 ELSE processed_files
           /\ fi' = IF file_result.error = None THEN fi + 1 ELSE Len(files)
    /\ UNCHANGED <<listing, contents, simhash_size, max_files, files, summary, bpc>>
    /\ UNCHANGED <<cvars, svars>>

\* lines 108-114: one iteration of the for loop
BenchFile ==
    /\ bpc = "loop"
    /\ fi < Len(files)
    /\ LET file_name == files[fi + 1]
           file_result == process_html_file(contents[file_name], simhash_size)
       IN  /\ results' = DictSet(results, file_name, file_result)
           /\ processed_files' =
                  IF file_result.error = None THEN processed_files + 1 ELSE processed_files
    /\ fi' = fi + 1
    /\ UNCHANGED <<listing, contents, simhash_size, max_files, files, summary, bpc>>
    /\ UNCHANGED <<cvars, svars>>

\* lines 116-120
BenchSummary ==
    /\ bpc = "loop"
    /\ fi = Len(files)
    /\ summary' = [files_processed |-> processed_files]
    /\ bpc' = "done"
    /\ UNCHANGED <<listing, contents, simhash_size, max_files, files, fi, results,
                   processed_files>>
    /\ UNCHANGED <<cvars, svars>>

-----------------------------------------------------------------------------
(* Inputs of the fingerprint computation and of the batch *)

Tokens == {"a", "b", "c"}

\* bit positions a hash value may have set; the widths stay below their number
HashBitPositions == 0..2
Widths == {1, 2}

\* the items of every dict over Tokens with weights 1..MaxWeight, in every order
FeatureItems ==
    {s \in SeqsUpTo(Tokens \X (1..MaxWeight), Cardinality(Tokens)) :
        \A j, k \in 1..Len(s) : j # k => s[j][1] # s[k][1]}

TokensOf(items) == {items[k][1] : k \in 1..Len(items)}

InitSimhash ==
    /\ sfeatures \in FeatureItems
    /\ swidth \in Widths
    /\ blake2b \in [TokensOf(sfeatures) -> SUBSET HashBitPositions]
    /\ svalue = {}
    /\ spc = "ready"
    /\ IdleCompress
    /\ IdleBench

NameA == <<"a",".","h","t","m","l">>
NameB == <<"b",".","h","t","m","l">>
NameTxt == <<"n",".","t","x","t">>
NameHtmlNoDot == <<"h","t","m","l">>

FileNames == {NameA, NameB, NameTxt, NameHtmlNoDot}

\* what extract_html_features returns for the documents of the batch: words in
\* sorted order with their counts
FeaturePool == {<<>>, <<<<"a", 1>>>>, <<<<"a", 2>>, <<"b", 1>>>>, <<<<"b", 1>>, <<"c", 1>>>>}

FileKinds ==
    {[fault |-> "read", features |-> <<>>], [fault |-> "extract", features |-> <<>>]}
        \cup {[fault |-> "none", features |-> fs] : fs \in FeaturePool}

\* digests of the tokens: within 64 bits, and with bits above bit 63
DigestPool ==
    {[t \in Tokens |-> IF t = "a" THEN {0, 9, 63} ELSE IF t = "b" THEN {1, 9, 31} ELSE {0, 40}],
     [t \in Tokens |-> IF t = "a" THEN {0, 64, 127} ELSE IF t = "b" THEN {0, 7, 8} ELSE {70, 511}]}

SimhashSizes == {32, 64, 128}

Listings ==
    {[raises |-> TRUE, names |-> <<>>]}
        \cup {[raises |-> FALSE, names |-> ns] :
                ns \in {s \in SeqsUpTo(FileNames, MaxListing) :
                           \A j, k \in 1..Len(s) : j # k => s[j] # s[k]}}

\* lines 91-97
InitBench ==
    /\ listing \in Listings
    /\ contents \in [Range(listing.names) -> FileKinds]
    /\ simhash_size \in SimhashSizes
    /\ max_files \in 0..MaxListing
    /\ blake2b \in DigestPool
    /\ files = <<>>
    /\ fi = 0
    /\ results = EmptyDict
    /\ processed_files = 0
    /\ summary = [files_processed |-> 0]
    /\ bpc = "start"
    /\ sfeatures = <<>> /\ swidth = 0 /\ svalue = {} /\ spc = "idle"
    /\ IdleCompress

InitFingerprint == InitSimhash \/ InitBench

NextFingerprint == Compute \/ BenchList \/ BenchFile \/ BenchSummary

SpecFingerprint == InitFingerprint /\ [][NextFingerprint]_vars

-----------------------------------------------------------------------------
(* Reading an archive back *)

RECURSIVE Concat(_)
Concat(ss) == IF Len(ss) = 0 THEN <<>> ELSE Head(ss) \o Concat(Tail(ss))

\* the entries after the key of a [key, entry, entry, ...] list
Entries(e) == IF Len(e) <= 1 THEN <<>> ELSE [k \in 1..(Len(e) - 1) |-> e[k + 1]]

DayRows(y, m, de) ==
    LET ps == Entries(de)
    IN  IF Len(ps) = 0 THEN <<>>
        ELSE [k \in 1..Len(ps) |->
                 [year |-> y, month |-> m, day |-> de[1], hms |-> ps[k][1], id |-> ps[k][2]]]

MonthRows(y, me) ==
    LET ds == Entries(me)
    IN  IF Len(ds) = 0 THEN <<>>
        ELSE Concat([k \in 1..Len(ds) |-> DayRows(y, me[1], ds[k])])

YearRows(ye) ==
    LET ms == Entries(ye)
    IN  IF Len(ms) = 0 THEN <<>>
        ELSE Concat([k \in 1..Len(ms) |-> MonthRows(ye[1], ms[k])])

\* the (suffix, id) pairs of an archive in the order of the year -> month -> day walk
ArchiveRows(a) ==
    IF Len(a.captures) = 0 THEN <<>>
    ELSE Concat([k \in 1..Len(a.captures) |-> YearRows(a.captures[k])])

\* str(n) for n >= 0
RECURSIVE Str(_)
Str(n) == IF n < 10 THEN <<DigitChars[n + 1]>> ELSE Str(n \div 10) \o <<DigitChars[(n % 10) + 1]>>

\* str.zfill(w)
RECURSIVE ZFill(_, _)
ZFill(s, w) == IF Len(s) >= w THEN s ELSE ZFill(<<"0">> \o s, w)

\* the reconstruction walk: (year+month+day+suffix, hashes[id]) per pair, the date
\* fields written back in their fixed widths
Reconstruct(a) ==
    LET rows == ArchiveRows(a)
    IN  IF Len(rows) = 0 THEN <<>>
        ELSE [k \in 1..Len(rows) |->
                 <<ZFill(Str(rows[k].year), 4) \o ZFill(Str(rows[k].month), 2)
                       \o ZFill(Str(rows[k].day), 2) \o rows[k].hms,
                   a.hashes[rows[k].id + 1]>>]

-----------------------------------------------------------------------------
(* Vocabulary of the properties of compress_captures *)

WellFormedTs(ts) == Len(ts) = 14 /\ \A k \in 1..Len(ts) : IsDigit(ts[k])

AllWellFormed == \A k \in 1..Len(captures) : WellFormedTs(captures[k][1])

\* wrong length, a non-digit character, or impossible date fields
MalformedTs(ts) ==
    \/ ~WellFormedTs(ts)
    \/ IntValue(Month(ts)) \notin 1..12
    \/ IntValue(Day(ts)) \notin 1..31

DateOf(ts) == Slice(ts, 0, 8)

Key(ts) == <<IntValue(Year(ts)), IntValue(Month(ts)), IntValue(Day(ts))>>

OnDate(cs, d) == SelectSeq(cs, LAMBDA c : DateOf(c[1]) = d)

Count(cs, x) == Cardinality({k \in 1..Len(cs) : cs[k] = x})

\* the distinct elements of a sequence, in the order of their first occurrence
RECURSIVE FirstSeen(_)
FirstSeen(s) ==
    IF Len(s) = 0 THEN <<>>
    ELSE LET p == FirstSeen(SubSeq(s, 1, Len(s) - 1))
         IN  IF \E k \in 1..Len(p) : p[k] = s[Len(s)] THEN p ELSE Append(p, s[Len(s)])

IndexOf(s, x) == CHOOSE k \in 1..Len(s) : s[k] = x

\* the fingerprints of the captures consumed so far
ConsumedHashes == [k \in 1..ci |-> captures[k][2]]

\* positions of the consumed captures whose date fields parse to key, in input order
PositionsOf(key) == SelectSeq([k \in 1..ci |-> k], LAMBDA k : Key(captures[k][1]) = key)

RowsOf(a, key) ==
    SelectSeq(ArchiveRows(a), LAMBDA r : <<r.year, r.month, r.day>> = key)

ArchiveKeys(a) == {<<r.year, r.month, r.day>> : r \in Range(ArchiveRows(a))}

GroupedIds(g) ==
    UNION {UNION {UNION {{g[y][m][d][k][2] : k \in 1..Len(g[y][m][d])}
        : d \in DOMAIN g[y][m]} : m \in DOMAIN g[y]} : y \in DOMAIN g}

StrictlyAscending(s) == \A k \in 1..(Len(s) - 1) : s[k] < s[k + 1]

KeysOf(es) == [k \in 1..Len(es) |-> es[k][1]]

-----------------------------------------------------------------------------
(* Properties of compress_captures *)

\* C1: ids are handed out sequentially in first-seen order.  At every point of the
\* loop the id given to the k-th consumed capture is the position (from 0) of its
\* fingerprint among the distinct fingerprints seen so far, hash_dict maps the j-th
\* distinct fingerprint to j, and the returned hashes list is the distinct
\* fingerprints in first-seen order, the archive's pairs carrying those ids.
C1_SequentialIds ==
    cpc \in {"loop", "done", "raised"} =>
        LET seen == FirstSeen(ConsumedHashes)
        IN  /\ Len(assigned) = ci
            /\ \A k \in 1..ci : assigned[k] = IndexOf(seen, captures[k][2]) - 1
            /\ DOMAIN hash_dict = Range(seen)
            /\ \A j \in 1..Len(seen) : hash_dict[seen[j]] = j - 1
            /\ cpc = "done" =>
                   /\ archive.hashes = seen
                   /\ \A key \in {Key(captures[k][1]) : k \in 1..ci} :
                          LET ps == PositionsOf(key)
                              rs == RowsOf(archive, key)
                          IN  /\ Len(rs) = Len(ps)
                              /\ \A n \in 1..Len(ps) :
                                     rs[n].id = IndexOf(seen, captures[ps[n]][2]) - 1

\* a fingerprint seen before comes back after another one: ids 0, 1, 0
C1_Witness ==
    /\ cpc = "done"
    /\ Len(captures) = 3
    /\ captures[1][2] = captures[3][2]
    /\ captures[1][2] # captures[2][2]
    /\ assigned = <<0, 1, 0>>
    /\ Len(archive.hashes) = 2

\* C2: walking the returned archive year -> month -> day and emitting
\* (year+month+day+suffix, hashes[id]) gives back exactly the input pairs of a
\* well-formed input (same multiset), in input order within each date, and the
\* input itself when all captures share one date.
C2_RoundTrip ==
    (cpc = "done" /\ AllWellFormed) =>
        LET r == Reconstruct(archive)
        IN  /\ Len(r) = Len(captures)
            /\ \A k \in 1..Len(captures) : Count(r, captures[k]) = Count(captures, captures[k])
            /\ \A k \in 1..Len(captures) :
                   OnDate(r, DateOf(captures[k][1])) = OnDate(captures, DateOf(captures[k][1]))
            /\ (\A j, k \in 1..Len(captures) : DateOf(captures[j][1]) = DateOf(captures[k][1]))
                   => r = captures

\* two captures of one day around a capture of an earlier day: the walk moves the
\* earlier day to the front and keeps the two in their order
C2_Witness ==
    /\ cpc = "done"
    /\ AllWellFormed
    /\ Len(captures) = 3
    /\ DateOf(captures[1][1]) = DateOf(captures[3][1])
    /\ captures[1] # captures[3]
    /\ Key(captures[2][1])[1] < Key(captures[1][1])[1]
    /\ Reconstruct(archive) = <<captures[2], captures[1], captures[3]>>

\* C3: every id stored in the grouping structure indexes a known fingerprint, at
\* every step of the loop; in the returned archive every id is a valid index into
\* hashes and hashes[id] is the fingerprint of the capture that produced the pair.
C3_IdsValid ==
    /\ \A id \in GroupedIds(grouped) : id \in 0..(Cardinality(DOMAIN hash_dict) - 1)
    /\ cpc = "done" =>
           /\ \A r \in Range(ArchiveRows(archive)) : r.id \in 0..(Len(archive.hashes) - 1)
           /\ \A key \in {Key(captures[k][1]) : k \in 1..ci} :
                  LET ps == PositionsOf(key)
                      rs == RowsOf(archive, key)
                  IN  /\ Len(rs) = Len(ps)
                      /\ \A n \in 1..Len(ps) :
                             /\ archive.hashes[rs[n].id + 1] = captures[ps[n]][2]
                             /\ rs[n].hms = Hms(captures[ps[n]][1])

C3_Witness ==
    /\ cpc = "done"
    /\ Len(archive.hashes) = 3
    /\ \E r \in Range(ArchiveRows(archive)) : r.id = 2

C5_MalformedFails ==
    (cpc \in {"done", "raised"} /\ \E k \in 1..Len(captures) : MalformedTs(captures[k][1])) =>
        /\ cpc = "raised"
        /\ ~archive.returned
        /\ cerror # None
        /\ MalformedTs(captures[ci + 1][1])
        /\ \A k \in 1..ci : ~MalformedTs(captures[k][1])

-----------------------------------------------------------------------------
(* Reading a serialized fingerprint back *)

B64Index(c) == (CHOOSE i \in 1..64 : B64Alphabet[i] = c) - 1

\* the 1, 2 or 3 bytes of one group of four characters
B64DecodeGroup(g) ==
    LET n == B64Index(g[1]) * 262144 + B64Index(g[2]) * 4096
               + (IF g[3] = "=" THEN 0 ELSE B64Index(g[3]) * 64)
               + (IF g[4] = "=" THEN 0 ELSE B64Index(g[4]))
        bs == <<n \div 65536, (n \div 256) % 256, n % 256>>
    IN  IF g[3] = "=" THEN SubSeq(bs, 1, 1)
        ELSE IF g[4] = "=" THEN SubSeq(bs, 1, 2)
        ELSE bs

\* base64.b64decode
RECURSIVE B64Decode(_)
B64Decode(str) ==
    IF Len(str) = 0 THEN <<>>
    ELSE B64DecodeGroup(SubSeq(str, 1, 4)) \o B64Decode(SubSeq(str, 5, Len(str)))

\* int.from_bytes(bs, byteorder='little')
FromBytesLittle(bs) ==
    {8 * (k - 1) + j : <<k, j>> \in {kj \in (1..Len(bs)) \X (0..7) :
                                        (bs[kj[1]] \div (2 ^ kj[2])) % 2 = 1}}

-----------------------------------------------------------------------------
(* Vocabulary of the properties of the fingerprint and of the batch *)

\* the signed weight a feature contributes to bit i
Contribution(item, i) == IF i \in blake2b[item[1]] THEN item[2] ELSE -item[2]

RECURSIVE SumOver(_, _)
SumOver(ks, i) ==
    IF ks = {} THEN 0
    ELSE LET k == CHOOSE x \in ks : TRUE
         IN  Contribution(sfeatures[k], i) + SumOver(ks \ {k}, i)

\* the sum over all features, taken as a set
WeightedSum(i) == SumOver(1..Len(sfeatures), i)

IterationOrders(n) == {p \in [1..n -> 1..n] : \A j, k \in 1..n : j # k => p[j] # p[k]}

Reordered(items, p) == [k \in 1..Len(items) |-> items[p[k]]]

\* the files whose loop iteration is over
DoneFiles == Range(Slice(files, 0, fi))

NoFeatures(c) == c.fault = "none" /\ Len(c.features) = 0

\* a read error, an extraction error, no features, or a value to_bytes(8) rejects
Fails(c) ==
    \/ c.fault # "none"
    \/ Len(c.features) = 0
    \/ ToBytesOverflows(calculate_simhash(c.features, simhash_size), 8)

Succeeded == {name \in DOMAIN results : name # ErrorKey /\ results[name].error = None}

-----------------------------------------------------------------------------
(* Properties of the fingerprint and of the batch *)

C7_BitRule ==
    (spc = "done" /\ Len(sfeatures) > 0) =>
        /\ \A i \in 0..(swidth - 1) : (i \in svalue) <=> (WeightedSum(i) > 0)
        /\ svalue \subseteq 0..(swidth - 1)

\* a tie on bit 0, a positive sum on bit 1, and a hash bit above the width
C7_Witness ==
    /\ spc = "done"
    /\ swidth = 2
    /\ Len(sfeatures) = 2
    /\ WeightedSum(0) = 0
    /\ WeightedSum(1) > 0
    /\ \E t \in DOMAIN blake2b : 2 \in blake2b[t]
    /\ svalue = {1}

\* C8: the fingerprint depends on the mapping as an unordered set: accumulating
\* the same (token, weight) pairs in any other iteration order gives the value
\* that was returned.
C8_OrderIndependent ==
    spc = "done" =>
        \A p \in IterationOrders(Len(sfeatures)) :
            calculate_simhash(Reordered(sfeatures, p), swidth) = svalue

\* three features of different weights whose hashes differ
C8_Witness ==
    /\ spc = "done"
    /\ Len(sfeatures) = 3
    /\ sfeatures[1][2] # sfeatures[2][2]
    /\ blake2b[sfeatures[1][1]] # blake2b[sfeatures[2][1]]
    /\ blake2b[sfeatures[2][1]] # blake2b[sfeatures[3][1]]
    /\ svalue # {}

\* C9: for every width B and every B-bit fingerprint the stored simhash is the
\* base64 of exactly B/8 little-endian bytes, and decoding gives the fingerprint back.
C9_SerializationRoundTrip ==
    bpc \in {"loop", "done"} =>
        \A name \in DoneFiles :
            (contents[name].fault = "none" /\ Len(contents[name].features) > 0) =>
                LET bs == B64Decode(results[name].simhash)
                IN  /\ results[name].error = None
                    /\ Len(bs) = simhash_size \div 8
                    /\ FromBytesLittle(bs) =
                           calculate_simhash(contents[name].features, simhash_size)

\* C10: a failing file never ends the batch.  Every selected file has its own
\* entry, a failing file's entry has a non-null error and an empty simhash, a file
\* that does not fail has no error and a simhash, whatever came before it, and
\* files_processed is the number of entries without error.
C10_BatchContinues ==
    (bpc \in {"loop", "done"} /\ ~listing.raises) =>
        /\ DOMAIN results = DoneFiles
        /\ \A name \in DoneFiles :
               /\ Fails(contents[name]) =>
                      /\ results[name].error # None
                      /\ results[name].simhash = EmptyStr
               /\ ~Fails(contents[name]) =>
                      /\ results[name].error = None
                      /\ results[name].simhash # EmptyStr
        /\ processed_files = Cardinality(Succeeded)
        /\ bpc = "done" =>
               /\ DoneFiles = Range(files)
               /\ summary.files_processed = Cardinality(Succeeded)

\* an unreadable file first, a good file after it
C10_Witness ==
    /\ bpc = "done"
    /\ Len(files) = 2
    /\ contents[files[1]].fault = "read"
    /\ results[files[1]].error # None
    /\ results[files[2]].error = None
    /\ results[files[2]].simhash # EmptyStr
    /\ summary.files_processed = 1

=============================================================================
